---- MODULE Spec2Model ----
(***************************************************************************)
(* The in-memory cart store of the shopping-cart service (main.go):        *)
(* CartService.AddToCart, GetCart, RemoveFromCart and the gauge callback   *)
(* observeCartMetrics, run by concurrent goroutines under the store-level  *)
(* sync.RWMutex and the per-cart sync.RWMutex.                             *)
(*                                                                         *)
(* A sync.RWMutex is modelled by the set of goroutines holding it for      *)
(* writing and the set holding it for reading; Lock is enabled when both   *)
(* are empty, RLock when no writer holds it.  Every statement between two  *)
(* lock operations is one step; a return statement runs the deferred       *)
(* unlocks in the same step.                                               *)
(*                                                                         *)
(* Two further parts stand beside the store: the backing arrays of one     *)
(* cart's Items slice with a caller that keeps the list GetCart returned   *)
(* (SpecMem), and the HTTP middleware withMetrics with the five handlers   *)
(* and the three metric instruments it records to (SpecHttp).              *)
(***************************************************************************)
EXTENDS Integers, Sequences, FiniteSets, TLC

\* ---------------------------------------------------------------- bounds
Workers    == {"w1", "w2"}          \* request goroutines
Obs        == "obs"                 \* the metrics collection goroutine
Procs      == Workers \cup {Obs}
ObsWorkers == {"w1"}                \* request goroutines run beside the callback
Users      == {"u1", "u2"}
ItemIDs    == {"a", "b"}
\* name, price and quantity an add request may carry for an item id
Variants   == {[Name |-> "n1", Price |-> 10, Quantity |-> 1],
               [Name |-> "n2", Price |-> 25, Quantity |-> 2]}
MaxCalls   == 4                     \* total number of store calls issued
AllMaxCalls == 3                    \* the same, when two workers run beside the callback
MaxMemOps  == 5                     \* operations on the memory of one cart
MaxRequests == 2                    \* HTTP requests served

\* ---------------------------------------------------------------- data
\* a nil *Cart (the map lookup found nothing)
NoCart == 0

\* CartItem values a caller may pass to AddToCart
ItemInputs ==
    {[ID |-> i, Name |-> v.Name, Price |-> v.Price, Quantity |-> v.Quantity] :
        i \in ItemIDs, v \in Variants}

\* the CartItem values used in the runs that include the metrics callback
ObsInputs ==
    {[ID |-> "a", Name |-> "n1", Price |-> 10, Quantity |-> 1],
     [ID |-> "b", Name |-> "n2", Price |-> 25, Quantity |-> 2]}

\* the CartItem value used in the runs about waiting for locks
LiveInputs == {[ID |-> "a", Name |-> "n1", Price |-> 10, Quantity |-> 1]}

\* the zero CartItem, as make([]CartItem, n) produces
ZeroItem == [ID |-> "", Name |-> "", Price |-> 0, Quantity |-> 0]

\* a nil *Cart result, and the result slot of a call that has not returned
NilCopy == [UserID |-> "", Items |-> << >>]
NoRet   == [err |-> "none", id |-> "", cart |-> NilCopy]

VARIABLES
    carts,      \* cs.carts: user id -> address of its Cart (NoCart if absent)
    heap,       \* the allocated Cart objects, by address: [UserID, Items]
    storeW,     \* goroutines holding cs.mutex for writing
    storeR,     \* goroutines holding cs.mutex for reading
    cartW,      \* per Cart address: goroutines holding cart.mutex for writing
    cartR,      \* per Cart address: goroutines holding cart.mutex for reading
    pc,         \* position of each goroutine
    call,       \* arguments of each worker's current (or last) call
    cartRef,    \* the local variable cart of each goroutine
    ret,        \* the value each worker's call returns
    ncalls,     \* number of calls issued so far
    total,      \* observeCartMetrics: totalItems
    visited,    \* observeCartMetrics: users whose cart the range loop has done
    reported,   \* last pair observed: <<cart_items_total, active_users_total>>
    \* history variables (not program state)
    addedSum,   \* per user and item id: quantity added since it was last absent
    landed,     \* per user and item id: quantity of the AddToCart calls returned
    anyRemove,  \* a RemoveFromCart call has been issued
    concAdds,   \* <<user, id>> pairs for which two AddToCart calls overlapped
    obsSeen,    \* store totals that existed during the running observation
    obsErr,     \* observeCartMetrics: the error value it returns
    absStore,   \* history: the atomic store the calls take effect on, one by one
    absRet,     \* history: what the atomic store answered each running call
    \* the memory behind one cart's Items slice and a list GetCart returned
    arrays,     \* the allocated backing arrays, by address
    liveSl,     \* cart.Items: the slice header [arr, len]
    held,       \* cartCopy.Items in the hands of the caller of GetCart
    liveAbs,    \* history: the list cart.Items stands for
    heldSnap,   \* history: the list held stood for when GetCart returned it
    heldDirty,  \* history: the caller has written through held
    mops,       \* history: the operations done on this memory, in order
    \* one request through withMetrics
    hpc,        \* position of the request in the middleware
    hreq,       \* the *http.Request
    hstatus,    \* wrapped.statusCode
    hcode,      \* history: the status the handler passed to WriteHeader, if any
    reqLog,     \* the Add calls made on the requests_total counter
    latLog,     \* the Record calls made on the request_duration histogram
    errLog,     \* the Add calls made on the errors_total counter
    nreqs       \* number of requests served so far

storeVars == <<carts, heap>>
lockVars  == <<storeW, storeR, cartW, cartR>>
obsVars   == <<total, visited, reported, obsErr>>
tallyVars == <<addedSum, landed, anyRemove, concAdds, obsSeen>>
linVars   == <<absStore, absRet>>
histVars  == <<tallyVars, linVars>>
memVars   == <<arrays, liveSl, held, liveAbs, heldSnap, heldDirty, mops>>
httpVars  == <<hpc, hreq, hstatus, hcode, reqLog, latLog, errLog, nreqs>>
\* what the goroutines working on the store leave alone
sideVars  == <<memVars, httpVars>>
cartVars  == <<carts, heap, storeW, storeR, cartW, cartR, pc, call, cartRef, ret,
               ncalls, total, visited, reported, obsErr,
               addedSum, landed, anyRemove, concAdds, obsSeen, absStore, absRet>>
vars == <<cartVars, memVars, httpVars>>

\* ---------------------------------------------------------------- helpers
\* faulty variant: the loop index is used after the loop, so a search that
\* finds nothing yields the last position
IndexOfLast(items, id) ==
    IF \E i \in 1..Len(items) : items[i].ID = id
    THEN CHOOSE i \in 1..Len(items) :
            /\ items[i].ID = id
            /\ \A j \in 1..(i - 1) : items[j].ID # id
    ELSE Len(items)

\* the range loop of AddToCart / RemoveFromCart: index of the first item
\* whose ID matches, 0 if the loop runs to its end
IndexOf(items, id) ==
    IF \E i \in 1..Len(items) : items[i].ID = id
    THEN CHOOSE i \in 1..Len(items) :
            /\ items[i].ID = id
            /\ \A j \in 1..(i - 1) : items[j].ID # id
    ELSE 0

\* faulty variant: the quantity of the existing entry is overwritten
MergeOverwrite(items, item) ==
    IF \E i \in 1..Len(items) : items[i].ID = item.ID
    THEN [k \in 1..Len(items) |->
            IF items[k].ID = item.ID
            THEN [items[k] EXCEPT !.Quantity = item.Quantity] ELSE items[k]]
    ELSE Append(items, item)

\* faulty variant: no search for an existing entry
AlwaysAppend(items, item) == Append(items, item)

\* faulty variant: the existing entry is replaced by the incoming item, with
\* the quantities added up
MergeReplace(items, item) ==
    LET i == IndexOf(items, item.ID) IN
    IF i # 0
    THEN [items EXCEPT ![i] = [item EXCEPT !.Quantity = @ + items[i].Quantity]]
    ELSE Append(items, item)

\* faulty variant: a new item is put in front of the list
MergeOrPrepend(items, item) ==
    LET i == IndexOf(items, item.ID) IN
    IF i # 0
    THEN [items EXCEPT ![i].Quantity = @ + item.Quantity]
    ELSE <<item>> \o items

\* AddToCart's item-level work: merge the quantity or append
MergeOrAppend(items, item) ==
    LET i == IndexOf(items, item.ID) IN
    IF i # 0
    THEN [items EXCEPT ![i].Quantity = @ + item.Quantity]
    ELSE Append(items, item)

\* faulty variant: cart.Items[:i], the tail is dropped
RemoveAtTruncate(items, i) == SubSeq(items, 1, i - 1)

\* append(cart.Items[:i], cart.Items[i+1:]...)
RemoveAt(items, i) ==
    SubSeq(items, 1, i - 1) \o SubSeq(items, i + 1, Len(items))

\* make([]CartItem, n)
MakeItems(n) == [k \in 1..n |-> ZeroItem]

\* faulty variant: the last element is not copied
CopyIntoShort(dst, src) ==
    [k \in 1..Len(dst) |-> IF k < Len(src) THEN src[k] ELSE dst[k]]

\* copy(dst, src): copies min(len(dst), len(src)) elements
CopyInto(dst, src) ==
    [k \in 1..Len(dst) |-> IF k <= Len(src) THEN src[k] ELSE dst[k]]

\* faulty variant: the UserID field of the copy is left at its zero value
CopyCartNoUser(cart) ==
    [UserID |-> "",
     Items  |-> CopyInto(MakeItems(Len(cart.Items)), cart.Items)]

\* the cartCopy GetCart builds
CopyCart(cart) ==
    [UserID |-> cart.UserID,
     Items  |-> CopyInto(MakeItems(Len(cart.Items)), cart.Items)]

\* faulty variant: the entries are counted, not their quantities
SumQtyEntries(items) == Len(items)

\* the inner loop of observeCartMetrics
RECURSIVE SumQty(_)
SumQty(items) ==
    IF items = << >> THEN 0
    ELSE items[1].Quantity + SumQty(Tail(items))

\* sync.RWMutex
CanLock(w, r)  == w = {} /\ r = {}
CanRLock(w, r) == w = {}

\* ---------------------------------------------------------------- views
HasCart(u)   == carts[u] # NoCart
LiveItems(u) == heap[carts[u]].Items
UsersWithCart == {u \in Users : HasCart(u)}

\* the pair a consistent snapshot of the store (c, h) would report
RECURSIVE SumCarts(_, _, _)
SumCarts(c, h, S) ==
    IF S = {} THEN 0
    ELSE LET u == CHOOSE x \in S : TRUE
         IN SumQty(h[c[u]].Items) + SumCarts(c, h, S \ {u})

TotalsOf(c, h) ==
    LET S == {u \in Users : c[u] # NoCart}
    IN <<SumCarts(c, h, S), Cardinality(S)>>

StoreTotals == TotalsOf(carts, heap)

Running(p) == pc[p] # "idle"
InAdd(p, u, i) ==
    /\ Running(p) /\ call[p].op = "add"
    /\ call[p].user = u /\ call[p].item.ID = i

\* the gauges before the first collection: nothing observed yet
NoReport == <<-1, -1>>

NoCall == [op |-> "none", user |-> "", item |-> ZeroItem, itemID |-> ""]

\* ---------------------------------------------------------------- slices
\* a slice header: the address of its backing array (0: none) and its length;
\* its capacity is the length of the backing array
NoSlice == [arr |-> 0, len |-> 0]

Cap(arrs, sl) == IF sl.arr = 0 THEN 0 ELSE Len(arrs[sl.arr])

\* the list a slice stands for
ViewOf(arrs, sl) == [k \in 1..sl.len |-> arrs[sl.arr][k]]

\* the capacity append gives the new backing array of a full slice
GrowCap(old) == IF old = 0 THEN 1 ELSE 2 * old

\* append(s, x): in place when the capacity allows, else into a new array
SliceAppend(arrs, sl, x) ==
    IF sl.len < Cap(arrs, sl)
    THEN [arrays |-> [arrs EXCEPT ![sl.arr][sl.len + 1] = x],
          sl     |-> [sl EXCEPT !.len = @ + 1]]
    ELSE LET old == ViewOf(arrs, sl)
             new == [k \in 1..GrowCap(sl.len) |->
                        IF k <= sl.len THEN old[k]
                        ELSE IF k = sl.len + 1 THEN x ELSE ZeroItem]
         IN [arrays |-> Append(arrs, new),
             sl     |-> [arr |-> Len(arrs) + 1, len |-> sl.len + 1]]

\* append(s[:i], s[i+1:]...): the tail moves down one place in the same
\* array, whose last used slot keeps its old content
SliceRemove(arrs, sl, i) ==
    [arrays |-> [arrs EXCEPT ![sl.arr] =
                    [k \in 1..Len(@) |->
                        IF k >= i /\ k < sl.len THEN @[k + 1] ELSE @[k]]],
     sl     |-> [sl EXCEPT !.len = @ - 1]]

\* faulty variant: no new array, the copy is the slice itself
SliceShare(arrs, sl) == [arrays |-> arrs, sl |-> sl]

\* make([]CartItem, n) followed by copy(dst, src)
SliceClone(arrs, sl) ==
    [arrays |-> Append(arrs, CopyInto(MakeItems(sl.len), ViewOf(arrs, sl))),
     sl     |-> [arr |-> Len(arrs) + 1, len |-> sl.len]]

\* ---------------------------------------------------------------- requests
Methods   == {"GET", "POST", "DELETE"}
HttpUsers == {"", "u1"}
HttpIDs   == {"", "a"}
\* the item of an add request: a usual one, one without id, one of quantity 0
HttpItems ==
    {[ID |-> "a", Name |-> "n1", Price |-> 10, Quantity |-> 1],
     [ID |-> "",  Name |-> "n1", Price |-> 10, Quantity |-> 1],
     [ID |-> "a", Name |-> "n1", Price |-> 10, Quantity |-> 0]}
\* the codes handleSimulateError draws from
SimulatedCodes == {400, 401, 403, 404, 500, 502, 503}

\* a request: bodyOK says whether its body decodes as JSON; user is the
\* user_id of the body or of the query string
Req(m, path, ok, u, it, id) ==
    [method |-> m, path |-> path, bodyOK |-> ok, user |-> u, item |-> it, itemID |-> id]

Requests ==
    {Req(m, "/cart/add", TRUE, u, it, "") : m \in Methods, u \in HttpUsers, it \in HttpItems}
    \cup {Req(m, "/cart/add", FALSE, "", ZeroItem, "") : m \in Methods}
    \cup {Req(m, "/cart/get", TRUE, u, ZeroItem, "") : m \in Methods, u \in HttpUsers}
    \cup {Req(m, "/cart/remove", TRUE, u, ZeroItem, i) :
               m \in Methods, u \in HttpUsers, i \in HttpIDs}
    \cup {Req(m, "/cart/remove", FALSE, "", ZeroItem, "") : m \in Methods}
    \cup {Req(m, "/health", TRUE, "", ZeroItem, "") : m \in Methods}
    \cup {Req(m, "/simulate-error", TRUE, "", ZeroItem, "") : m \in Methods}

NoReq == Req("", "", FALSE, "", ZeroItem, "")

\* http.StatusOK, the status a responseWriter starts with
StatusOK == 200

\* ---------------------------------------------------------------- the atomic store
\* The store the calls are compared with: user id -> list of items, or
\* NoList for a user without cart; a call takes effect on it in one step.
NoList == [has |-> FALSE, items |-> << >>]

Holds(items, id) == \E k \in 1..Len(items) : items[k].ID = id

SeqAdd(st, u, item) ==
    LET old == st[u].items
        new == IF Holds(old, item.ID)
               THEN [k \in 1..Len(old) |->
                       IF old[k].ID = item.ID
                       THEN [old[k] EXCEPT !.Quantity = @ + item.Quantity]
                       ELSE old[k]]
               ELSE old \o <<item>>
    IN [store |-> [st EXCEPT ![u] = [has |-> TRUE, items |-> new]],
        ret   |-> [err |-> "nil", id |-> "", cart |-> NilCopy]]

SeqGet(st, u) ==
    IF st[u].has
    THEN [err |-> "nil", id |-> "", cart |-> [UserID |-> u, Items |-> st[u].items]]
    ELSE [err |-> "NotFound", id |-> u, cart |-> NilCopy]

SeqRemove(st, u, id) ==
    IF ~st[u].has
    THEN [store |-> st, ret |-> [err |-> "NotFound", id |-> u, cart |-> NilCopy]]
    ELSE IF ~Holds(st[u].items, id)
    THEN [store |-> st, ret |-> [err |-> "ItemNotFound", id |-> id, cart |-> NilCopy]]
    ELSE LET Other(e) == e.ID # id
         IN [store |-> [st EXCEPT ![u].items = SelectSeq(@, Other)],
             ret   |-> [err |-> "nil", id |-> "", cart |-> NilCopy]]

\* ---------------------------------------------------------------- Init
Init ==
    /\ obsErr = "none"
    /\ arrays = << >> /\ liveSl = NoSlice /\ held = NoSlice
    /\ liveAbs = << >> /\ heldSnap = << >> /\ heldDirty = FALSE /\ mops = << >>
    /\ hpc = "idle" /\ hreq = NoReq /\ hstatus = 0 /\ hcode = 0
    /\ reqLog = << >> /\ latLog = << >> /\ errLog = << >> /\ nreqs = 0
    /\ carts = [u \in Users |-> NoCart]
    /\ heap = << >>
    /\ storeW = {} /\ storeR = {}
    /\ cartW = << >> /\ cartR = << >>
    /\ pc = [p \in Procs |-> "idle"]
    /\ call = [p \in Workers |-> NoCall]
    /\ cartRef = [p \in Procs |-> NoCart]
    /\ ret = [p \in Workers |-> NoRet]
    /\ ncalls = 0
    /\ total = 0 /\ visited = {} /\ reported = NoReport
    /\ addedSum = [u \in Users |-> [i \in ItemIDs |-> [present |-> FALSE, sum |-> 0]]]
    /\ landed = [u \in Users |-> [i \in ItemIDs |-> 0]]
    /\ anyRemove = FALSE
    /\ concAdds = {}
    /\ obsSeen = {}
    /\ absStore = [u \in Users |-> NoList]
    /\ absRet = [p \in Workers |-> NoRet]

\* history of the totals the store went through while an observation runs
SeenAfter(c, h) ==
    IF pc[Obs] = "idle" THEN obsSeen ELSE obsSeen \cup {TotalsOf(c, h)}

Without(S, p) == S \ {p}

\* the call is over: the goroutine's frame (arguments, locals, result) is gone
Finish(p) ==
    /\ pc' = [pc EXCEPT ![p] = "idle"]
    /\ call' = [call EXCEPT ![p] = NoCall]
    /\ cartRef' = [cartRef EXCEPT ![p] = NoCart]
    /\ ret' = [ret EXCEPT ![p] = NoRet]
    /\ absRet' = [absRet EXCEPT ![p] = NoRet]

\* ---------------------------------------------------------------- AddToCart
AddCallOf(p, inputs) ==
    /\ pc[p] = "idle" /\ ncalls < MaxCalls
    /\ \E u \in Users, it \in inputs :
         /\ call' = [call EXCEPT ![p] =
                        [op |-> "add", user |-> u, item |-> it, itemID |-> ""]]
         /\ concAdds' = IF \E q \in Workers \ {p} : InAdd(q, u, it.ID)
                        THEN concAdds \cup {<<u, it.ID>>} ELSE concAdds
    /\ pc' = [pc EXCEPT ![p] = "a_lock"]
    /\ ncalls' = ncalls + 1
    /\ UNCHANGED <<ret, cartRef>>
    /\ UNCHANGED <<storeVars, lockVars, obsVars, addedSum, landed, anyRemove, obsSeen, linVars>>
    /\ UNCHANGED sideVars

AddCall(p)    == AddCallOf(p, ItemInputs)
ObsAddCall(p) == AddCallOf(p, ObsInputs)

\* faulty variant: the store lock is taken shared, cs.mutex.RLock()
AddLockShared(p) ==
    /\ pc[p] = "a_lock"
    /\ CanRLock(storeW, storeR)
    /\ storeR' = storeR \cup {p}
    /\ pc' = [pc EXCEPT ![p] = "a_lookup"]
    /\ UNCHANGED <<storeVars, storeW, cartW, cartR, call, cartRef, ret, ncalls,
                   obsVars, histVars>>
    /\ UNCHANGED sideVars

\* cs.mutex.Lock()
AddLock(p) ==
    /\ pc[p] \in {"a_lock", "a_lockw"}
    /\ CanLock(storeW, storeR)
    /\ storeW' = storeW \cup {p}
    /\ pc' = [pc EXCEPT ![p] = "a_lookup"]
    /\ UNCHANGED <<storeVars, storeR, cartW, cartR, call, cartRef, ret, ncalls,
                   obsVars, histVars>>
    /\ UNCHANGED sideVars

\* faulty variant: the result of the lookup is ignored, a cart is always made
AddLookupNoCheck(p) ==
    /\ pc[p] = "a_lookup"
    /\ cartRef' = [cartRef EXCEPT ![p] = carts[call[p].user]]
    /\ pc' = [pc EXCEPT ![p] = "a_create"]
    /\ UNCHANGED <<storeVars, lockVars, call, ret, ncalls, obsVars, histVars>>
    /\ UNCHANGED sideVars

\* cart, exists := cs.carts[userID]
AddLookup(p) ==
    /\ pc[p] = "a_lookup"
    /\ cartRef' = [cartRef EXCEPT ![p] = carts[call[p].user]]
    /\ pc' = [pc EXCEPT ![p] =
                IF carts[call[p].user] # NoCart THEN "a_cartlock" ELSE "a_create"]
    /\ UNCHANGED <<storeVars, lockVars, call, ret, ncalls, obsVars, histVars>>
    /\ UNCHANGED sideVars

\* cart = &Cart{UserID: userID, Items: []CartItem{}}; cs.carts[userID] = cart
AddCreate(p) ==
    /\ pc[p] = "a_create"
    /\ heap' = Append(heap, [UserID |-> call[p].user, Items |-> << >>])
    /\ cartW' = Append(cartW, {})
    /\ cartR' = Append(cartR, {})
    /\ carts' = [carts EXCEPT ![call[p].user] = Len(heap) + 1]
    /\ cartRef' = [cartRef EXCEPT ![p] = Len(heap) + 1]
    /\ pc' = [pc EXCEPT ![p] = "a_cartlock"]
    /\ obsSeen' = SeenAfter(carts', heap')
    /\ UNCHANGED <<storeW, storeR, call, ret, ncalls, obsVars,
                   addedSum, landed, anyRemove, concAdds, linVars>>
    /\ UNCHANGED sideVars

\* cart.mutex.Lock()
AddCartLock(p) ==
    /\ pc[p] \in {"a_cartlock", "a_cartlockw"}
    /\ CanLock(cartW[cartRef[p]], cartR[cartRef[p]])
    /\ cartW' = [cartW EXCEPT ![cartRef[p]] = @ \cup {p}]
    /\ pc' = [pc EXCEPT ![p] = "a_items"]
    /\ UNCHANGED <<storeVars, storeW, storeR, cartR, call, cartRef, ret, ncalls,
                   obsVars, histVars>>
    /\ UNCHANGED sideVars

\* faulty variant: an id the cart already holds is refused
AddResultNoDuplicate(items, item) ==
    IF IndexOf(items, item.ID) # 0 THEN "Duplicate" ELSE "nil"

\* the error AddToCart returns: its two return statements are "return nil"
AddResult(items, item) == "nil"

\* the merge loop and the append; the value of "return nil"
AddItems(p) ==
    /\ pc[p] = "a_items"
    /\ heap' = [heap EXCEPT ![cartRef[p]].Items = MergeOrAppend(@, call[p].item)]
    /\ ret' = [ret EXCEPT ![p] =
                 [err  |-> AddResult(heap[cartRef[p]].Items, call[p].item),
                  id   |-> "", cart |-> NilCopy]]
    /\ pc' = [pc EXCEPT ![p] = "a_ret"]
    /\ addedSum' = [addedSum EXCEPT ![call[p].user][call[p].item.ID] =
                      [present |-> TRUE, sum |-> @.sum + call[p].item.Quantity]]
    /\ obsSeen' = SeenAfter(carts, heap')
    /\ absStore' = SeqAdd(absStore, call[p].user, call[p].item).store
    /\ absRet' = [absRet EXCEPT ![p] =
                    SeqAdd(absStore, call[p].user, call[p].item).ret]
    /\ UNCHANGED <<carts, lockVars, call, cartRef, ncalls, obsVars,
                   landed, anyRemove, concAdds>>
    /\ UNCHANGED sideVars

\* return: deferred cart.mutex.Unlock(), then cs.mutex.Unlock()
AddReturn(p) ==
    /\ pc[p] = "a_ret"
    /\ cartW' = [cartW EXCEPT ![cartRef[p]] = Without(@, p)]
    /\ storeW' = Without(storeW, p)
    /\ landed' = IF anyRemove THEN landed
                 ELSE [landed EXCEPT ![call[p].user][call[p].item.ID] =
                          @ + call[p].item.Quantity]
    /\ Finish(p)
    /\ UNCHANGED <<storeVars, storeR, cartR, ncalls, obsVars,
                   addedSum, anyRemove, concAdds, obsSeen, absStore>>
    /\ UNCHANGED sideVars

\* ---------------------------------------------------------------- GetCart
GetCall(p) ==
    /\ pc[p] = "idle" /\ ncalls < MaxCalls
    /\ \E u \in Users :
         call' = [call EXCEPT ![p] =
                     [op |-> "get", user |-> u, item |-> ZeroItem, itemID |-> ""]]
    /\ pc' = [pc EXCEPT ![p] = "g_lock"]
    /\ ncalls' = ncalls + 1
    /\ UNCHANGED <<ret, cartRef>>
    /\ UNCHANGED <<storeVars, lockVars, obsVars, histVars>>
    /\ UNCHANGED sideVars

\* faulty variant: the store lock is taken exclusively, cs.mutex.Lock()
GetLockExclusive(p) ==
    /\ pc[p] = "g_lock"
    /\ CanLock(storeW, storeR)
    /\ storeW' = storeW \cup {p}
    /\ pc' = [pc EXCEPT ![p] = "g_lookup"]
    /\ UNCHANGED <<storeVars, storeR, cartW, cartR, call, cartRef, ret, ncalls,
                   obsVars, histVars>>
    /\ UNCHANGED sideVars

\* cs.mutex.RLock()
GetLock(p) ==
    /\ pc[p] = "g_lock"
    /\ CanRLock(storeW, storeR)
    /\ storeR' = storeR \cup {p}
    /\ pc' = [pc EXCEPT ![p] = "g_lookup"]
    /\ UNCHANGED <<storeVars, storeW, cartW, cartR, call, cartRef, ret, ncalls,
                   obsVars, histVars>>
    /\ UNCHANGED sideVars

\* faulty variant: a missing cart is created (get-or-create) instead of reported
GetLookupOrCreate(p) ==
    /\ pc[p] = "g_lookup"
    /\ IF carts[call[p].user] = NoCart
       THEN /\ heap' = Append(heap, [UserID |-> call[p].user, Items |-> << >>])
            /\ cartW' = Append(cartW, {})
            /\ cartR' = Append(cartR, {})
            /\ carts' = [carts EXCEPT ![call[p].user] = Len(heap) + 1]
            /\ cartRef' = [cartRef EXCEPT ![p] = Len(heap) + 1]
       ELSE /\ cartRef' = [cartRef EXCEPT ![p] = carts[call[p].user]]
            /\ UNCHANGED <<storeVars, cartW, cartR>>
    /\ pc' = [pc EXCEPT ![p] = "g_cartlock"]
    /\ UNCHANGED <<storeW, storeR, call, ret, ncalls, obsVars, histVars>>
    /\ UNCHANGED sideVars

\* cart, exists := cs.carts[userID]; if !exists, the value of the return
GetLookup(p) ==
    /\ pc[p] = "g_lookup"
    /\ cartRef' = [cartRef EXCEPT ![p] = carts[call[p].user]]
    /\ IF carts[call[p].user] = NoCart
       THEN /\ ret' = [ret EXCEPT ![p] =
                         [err |-> "NotFound", id |-> call[p].user, cart |-> NilCopy]]
            /\ absRet' = [absRet EXCEPT ![p] = SeqGet(absStore, call[p].user)]
            /\ pc' = [pc EXCEPT ![p] = "g_ret"]
       ELSE /\ ret' = ret
            /\ absRet' = absRet
            /\ pc' = [pc EXCEPT ![p] = "g_cartlock"]
    /\ UNCHANGED <<storeVars, lockVars, call, ncalls, obsVars, tallyVars, absStore>>
    /\ UNCHANGED sideVars

\* faulty variant: the cart is copied without its lock
GetCartNoLock(p) ==
    /\ pc[p] = "g_cartlock"
    /\ pc' = [pc EXCEPT ![p] = "g_copy"]
    /\ UNCHANGED <<storeVars, lockVars, call, cartRef, ret, ncalls, obsVars, histVars>>
    /\ UNCHANGED sideVars

\* cart.mutex.RLock()
GetCartLock(p) ==
    /\ pc[p] = "g_cartlock"
    /\ CanRLock(cartW[cartRef[p]], cartR[cartRef[p]])
    /\ cartR' = [cartR EXCEPT ![cartRef[p]] = @ \cup {p}]
    /\ pc' = [pc EXCEPT ![p] = "g_copy"]
    /\ UNCHANGED <<storeVars, storeW, storeR, cartW, call, cartRef, ret, ncalls,
                   obsVars, histVars>>
    /\ UNCHANGED sideVars

\* cartCopy := &Cart{...}; copy(cartCopy.Items, cart.Items)
GetCopy(p) ==
    /\ pc[p] = "g_copy"
    /\ ret' = [ret EXCEPT ![p] =
                 [err |-> "nil", id |-> "", cart |-> CopyCart(heap[cartRef[p]])]]
    /\ absRet' = [absRet EXCEPT ![p] = SeqGet(absStore, call[p].user)]
    /\ pc' = [pc EXCEPT ![p] = "g_ret"]
    /\ UNCHANGED <<storeVars, lockVars, call, cartRef, ncalls, obsVars, tallyVars, absStore>>
    /\ UNCHANGED sideVars

\* return: deferred cart.mutex.RUnlock() (if taken), then cs.mutex.RUnlock()
GetReturn(p) ==
    /\ pc[p] = "g_ret"
    /\ cartR' = IF cartRef[p] = NoCart THEN cartR
                ELSE [cartR EXCEPT ![cartRef[p]] = Without(@, p)]
    /\ storeR' = Without(storeR, p)
    /\ Finish(p)
    /\ UNCHANGED <<storeVars, storeW, cartW, ncalls, obsVars, tallyVars, absStore>>
    /\ UNCHANGED sideVars

\* ---------------------------------------------------------------- RemoveFromCart
RemoveCall(p) ==
    /\ pc[p] = "idle" /\ ncalls < MaxCalls
    /\ \E u \in Users, i \in ItemIDs :
         call' = [call EXCEPT ![p] =
                     [op |-> "remove", user |-> u, item |-> ZeroItem, itemID |-> i]]
    /\ pc' = [pc EXCEPT ![p] = "r_lock"]
    /\ ncalls' = ncalls + 1
    /\ UNCHANGED <<ret, cartRef>>
    /\ anyRemove' = TRUE
    /\ landed' = [u \in Users |-> [i \in ItemIDs |-> 0]]
    /\ UNCHANGED <<storeVars, lockVars, obsVars, addedSum, concAdds, obsSeen, linVars>>
    /\ UNCHANGED sideVars

\* cs.mutex.RLock()
RemoveLock(p) ==
    /\ pc[p] = "r_lock"
    /\ CanRLock(storeW, storeR)
    /\ storeR' = storeR \cup {p}
    /\ pc' = [pc EXCEPT ![p] = "r_lookup"]
    /\ UNCHANGED <<storeVars, storeW, cartW, cartR, call, cartRef, ret, ncalls,
                   obsVars, histVars>>
    /\ UNCHANGED sideVars

\* cart, exists := cs.carts[userID]
RemoveLookup(p) ==
    /\ pc[p] = "r_lookup"
    /\ cartRef' = [cartRef EXCEPT ![p] = carts[call[p].user]]
    /\ absRet' = IF carts[call[p].user] = NoCart
                  THEN [absRet EXCEPT ![p] =
                          SeqRemove(absStore, call[p].user, call[p].itemID).ret]
                  ELSE absRet
    /\ pc' = [pc EXCEPT ![p] = "r_unlock"]
    /\ UNCHANGED <<storeVars, lockVars, call, ret, ncalls, obsVars, tallyVars, absStore>>
    /\ UNCHANGED sideVars

\* faulty variant: the store lock is kept when the cart is missing
RemoveUnlockFoundOnly(p) ==
    /\ pc[p] = "r_unlock"
    /\ IF cartRef[p] = NoCart
       THEN /\ ret' = [ret EXCEPT ![p] =
                         [err |-> "NotFound", id |-> call[p].user, cart |-> NilCopy]]
            /\ pc' = [pc EXCEPT ![p] = "r_ret"]
            /\ storeR' = storeR
       ELSE /\ ret' = ret
            /\ pc' = [pc EXCEPT ![p] = "r_cartlock"]
            /\ storeR' = Without(storeR, p)
    /\ UNCHANGED <<storeVars, storeW, cartW, cartR, call, cartRef, ncalls,
                   obsVars, histVars>>
    /\ UNCHANGED sideVars

\* cs.mutex.RUnlock(); if !exists { return "cart not found for user" }
RemoveUnlock(p) ==
    /\ pc[p] = "r_unlock"
    /\ storeR' = Without(storeR, p)
    /\ IF cartRef[p] = NoCart
       THEN /\ ret' = [ret EXCEPT ![p] =
                         [err |-> "NotFound", id |-> call[p].user, cart |-> NilCopy]]
            /\ pc' = [pc EXCEPT ![p] = "r_ret"]
       ELSE /\ ret' = ret
            /\ pc' = [pc EXCEPT ![p] = "r_cartlock"]
    /\ UNCHANGED <<storeVars, storeW, cartW, cartR, call, cartRef, ncalls,
                   obsVars, histVars>>
    /\ UNCHANGED sideVars

\* faulty variant: the cart lock is taken shared, cart.mutex.RLock()
RemoveCartLockShared(p) ==
    /\ pc[p] = "r_cartlock"
    /\ CanRLock(cartW[cartRef[p]], cartR[cartRef[p]])
    /\ cartR' = [cartR EXCEPT ![cartRef[p]] = @ \cup {p}]
    /\ pc' = [pc EXCEPT ![p] = "r_items"]
    /\ UNCHANGED <<storeVars, storeW, storeR, cartW, call, cartRef, ret, ncalls,
                   obsVars, histVars>>
    /\ UNCHANGED sideVars

\* cart.mutex.Lock()
RemoveCartLock(p) ==
    /\ pc[p] \in {"r_cartlock", "r_cartlockw"}
    /\ CanLock(cartW[cartRef[p]], cartR[cartRef[p]])
    /\ cartW' = [cartW EXCEPT ![cartRef[p]] = @ \cup {p}]
    /\ pc' = [pc EXCEPT ![p] = "r_items"]
    /\ UNCHANGED <<storeVars, storeW, storeR, cartR, call, cartRef, ret, ncalls,
                   obsVars, histVars>>
    /\ UNCHANGED sideVars

\* faulty variant: a cart that gets empty is taken out of the mapping
RemoveItemsDropEmpty(p) ==
    /\ pc[p] = "r_items"
    /\ LET items == heap[cartRef[p]].Items
           i     == IndexOf(items, call[p].itemID)
       IN IF i # 0
          THEN /\ heap' = [heap EXCEPT ![cartRef[p]].Items = RemoveAt(items, i)]
               /\ carts' = IF Len(items) = 1
                           THEN [carts EXCEPT ![heap[cartRef[p]].UserID] = NoCart]
                           ELSE carts
               /\ ret' = [ret EXCEPT ![p] =
                            [err |-> "nil", id |-> "", cart |-> NilCopy]]
               /\ addedSum' = [addedSum EXCEPT ![heap[cartRef[p]].UserID][call[p].itemID] =
                                 [present |-> FALSE, sum |-> 0]]
          ELSE /\ heap' = heap /\ carts' = carts
               /\ ret' = [ret EXCEPT ![p] =
                            [err |-> "ItemNotFound", id |-> call[p].itemID,
                             cart |-> NilCopy]]
               /\ addedSum' = addedSum
    /\ pc' = [pc EXCEPT ![p] = "r_ret"]
    /\ absStore' = SeqRemove(absStore, call[p].user, call[p].itemID).store
    /\ absRet' = [absRet EXCEPT ![p] =
                    SeqRemove(absStore, call[p].user, call[p].itemID).ret]
    /\ obsSeen' = SeenAfter(carts', heap')
    /\ UNCHANGED <<lockVars, call, cartRef, ncalls, obsVars,
                   landed, anyRemove, concAdds>>
    /\ UNCHANGED sideVars

\* the search loop: splice the first match out, or "item not found in cart"
RemoveItems(p) ==
    /\ pc[p] = "r_items"
    /\ LET items == heap[cartRef[p]].Items
           i     == IndexOf(items, call[p].itemID)
       IN IF i # 0
          THEN /\ heap' = [heap EXCEPT ![cartRef[p]].Items = RemoveAt(items, i)]
               /\ ret' = [ret EXCEPT ![p] =
                            [err |-> "nil", id |-> "", cart |-> NilCopy]]
               /\ addedSum' = [addedSum EXCEPT ![heap[cartRef[p]].UserID][call[p].itemID] =
                                 [present |-> FALSE, sum |-> 0]]
          ELSE /\ heap' = heap
               /\ ret' = [ret EXCEPT ![p] =
                            [err |-> "ItemNotFound", id |-> call[p].itemID,
                             cart |-> NilCopy]]
               /\ addedSum' = addedSum
    /\ pc' = [pc EXCEPT ![p] = "r_ret"]
    /\ absStore' = SeqRemove(absStore, call[p].user, call[p].itemID).store
    /\ absRet' = [absRet EXCEPT ![p] =
                    SeqRemove(absStore, call[p].user, call[p].itemID).ret]
    /\ obsSeen' = SeenAfter(carts, heap')
    /\ UNCHANGED <<carts, lockVars, call, cartRef, ncalls, obsVars,
                   landed, anyRemove, concAdds>>
    /\ UNCHANGED sideVars

\* return: deferred cart.mutex.Unlock() (if the function got that far)
RemoveReturn(p) ==
    /\ pc[p] = "r_ret"
    /\ cartW' = IF cartRef[p] = NoCart THEN cartW
                ELSE [cartW EXCEPT ![cartRef[p]] = Without(@, p)]
    /\ Finish(p)
    /\ UNCHANGED <<storeVars, storeW, storeR, cartR, ncalls, obsVars, tallyVars, absStore>>
    /\ UNCHANGED sideVars

\* ---------------------------------------------------------------- observeCartMetrics
\* the SDK reader invokes the registered callback
ObsCall ==
    /\ pc[Obs] = "idle"
    /\ pc' = [pc EXCEPT ![Obs] = "o_lock"]
    /\ obsSeen' = {StoreTotals}
    /\ UNCHANGED <<storeVars, lockVars, call, cartRef, ret, ncalls, obsVars,
                   addedSum, landed, anyRemove, concAdds, linVars>>
    /\ UNCHANGED sideVars

\* cs.mutex.RLock(); totalItems := int64(0)
ObsLock ==
    /\ pc[Obs] = "o_lock"
    /\ CanRLock(storeW, storeR)
    /\ storeR' = storeR \cup {Obs}
    /\ total' = 0
    /\ pc' = [pc EXCEPT ![Obs] = "o_range"]
    /\ UNCHANGED <<storeVars, storeW, cartW, cartR, call, cartRef, ret, ncalls,
                   visited, reported, obsErr, histVars>>
    /\ UNCHANGED sideVars

\* for _, cart := range cs.carts: the next entry, in the map's arbitrary order
ObsNext ==
    /\ pc[Obs] = "o_range"
    /\ \E u \in UsersWithCart \ visited :
         /\ cartRef' = [cartRef EXCEPT ![Obs] = carts[u]]
         /\ visited' = visited \cup {u}
    /\ pc' = [pc EXCEPT ![Obs] = "o_cartlock"]
    /\ UNCHANGED <<storeVars, lockVars, call, ret, ncalls, total, reported, obsErr,
                   histVars>>
    /\ UNCHANGED sideVars

\* cart.mutex.RLock()
ObsCartLock ==
    /\ pc[Obs] = "o_cartlock"
    /\ CanRLock(cartW[cartRef[Obs]], cartR[cartRef[Obs]])
    /\ cartR' = [cartR EXCEPT ![cartRef[Obs]] = @ \cup {Obs}]
    /\ pc' = [pc EXCEPT ![Obs] = "o_sum"]
    /\ UNCHANGED <<storeVars, storeW, storeR, cartW, call, cartRef, ret, ncalls,
                   obsVars, histVars>>
    /\ UNCHANGED sideVars

\* for _, item := range cart.Items { totalItems += int64(item.Quantity) }
\* cart.mutex.RUnlock()
ObsSum ==
    /\ pc[Obs] = "o_sum"
    /\ total' = total + SumQty(heap[cartRef[Obs]].Items)
    /\ cartR' = [cartR EXCEPT ![cartRef[Obs]] = Without(@, Obs)]
    /\ pc' = [pc EXCEPT ![Obs] = "o_range"]
    /\ UNCHANGED <<storeVars, storeW, storeR, cartW, call, cartRef, ret, ncalls,
                   visited, reported, obsErr, histVars>>
    /\ UNCHANGED sideVars

\* faulty variant: only the users whose cart holds an item count as active
ObsObserveNonEmpty ==
    /\ pc[Obs] = "o_range"
    /\ UsersWithCart \ visited = {}
    /\ reported' = <<total, Cardinality({u \in UsersWithCart : LiveItems(u) # << >>})>>
    /\ obsErr' = "nil"
    /\ pc' = [pc EXCEPT ![Obs] = "o_ret"]
    /\ UNCHANGED <<storeVars, lockVars, call, cartRef, ret, ncalls, total, visited,
                   histVars>>
    /\ UNCHANGED sideVars

\* faulty variant: an empty store is reported as an error, nothing is observed
ObsObserveErrOnEmpty ==
    /\ pc[Obs] = "o_range"
    /\ UsersWithCart \ visited = {}
    /\ IF UsersWithCart = {}
       THEN reported' = reported /\ obsErr' = "NoData"
       ELSE reported' = <<total, Cardinality(UsersWithCart)>> /\ obsErr' = "nil"
    /\ pc' = [pc EXCEPT ![Obs] = "o_ret"]
    /\ UNCHANGED <<storeVars, lockVars, call, cartRef, ret, ncalls, total, visited,
                   histVars>>
    /\ UNCHANGED sideVars

\* the range loop is over: observer.ObserveInt64 of both gauges; the value
\* of "return nil"
ObsObserve ==
    /\ pc[Obs] = "o_range"
    /\ UsersWithCart \ visited = {}
    /\ reported' = <<total, Cardinality(UsersWithCart)>>
    /\ obsErr' = "nil"
    /\ pc' = [pc EXCEPT ![Obs] = "o_ret"]
    /\ UNCHANGED <<storeVars, lockVars, call, cartRef, ret, ncalls, total, visited,
                   histVars>>
    /\ UNCHANGED sideVars

\* return nil: deferred cs.mutex.RUnlock()
ObsReturn ==
    /\ pc[Obs] = "o_ret"
    /\ storeR' = Without(storeR, Obs)
    /\ pc' = [pc EXCEPT ![Obs] = "idle"]
    /\ cartRef' = [cartRef EXCEPT ![Obs] = NoCart]
    /\ total' = 0
    /\ visited' = {}
    /\ obsSeen' = {}
    /\ obsErr' = "none"
    /\ UNCHANGED <<storeVars, storeW, cartW, cartR, call, ret, ncalls,
                   reported, addedSum, landed, anyRemove, concAdds, linVars>>
    /\ UNCHANGED sideVars

\* ---------------------------------------------------------------- the memory of a cart
\* The item-level work of the three operations on one cart, on the backing
\* arrays of its Items slice, and a caller that keeps and changes the list
\* GetCart returned to it.  The calls run one after the other, as the cart
\* lock makes them.
MemAdd ==
    /\ Len(mops) < MaxMemOps
    /\ \E item \in ObsInputs :
         LET i == IndexOf(ViewOf(arrays, liveSl), item.ID) IN
         /\ IF i # 0
            THEN /\ arrays' = [arrays EXCEPT ![liveSl.arr][i].Quantity =
                                   @ + item.Quantity]
                 /\ liveSl' = liveSl
            ELSE LET r == SliceAppend(arrays, liveSl, item)
                 IN arrays' = r.arrays /\ liveSl' = r.sl
         /\ liveAbs' = MergeOrAppend(liveAbs, item)
    /\ mops' = Append(mops, "add")
    /\ UNCHANGED <<held, heldSnap, heldDirty, cartVars, httpVars>>

\* a RemoveFromCart that finds the item
MemRemove ==
    /\ Len(mops) < MaxMemOps
    /\ \E id \in ItemIDs :
         LET i == IndexOf(ViewOf(arrays, liveSl), id)
             r == SliceRemove(arrays, liveSl, i)
         IN /\ i # 0
            /\ arrays' = r.arrays /\ liveSl' = r.sl
            /\ liveAbs' = RemoveAt(liveAbs, IndexOf(liveAbs, id))
    /\ mops' = Append(mops, "remove")
    /\ UNCHANGED <<held, heldSnap, heldDirty, cartVars, httpVars>>

\* faulty variant: cartCopy.Items is cart.Items
MemGetAlias ==
    /\ Len(mops) < MaxMemOps
    /\ arrays' = arrays
    /\ held' = liveSl
    /\ heldSnap' = ViewOf(arrays, liveSl)
    /\ heldDirty' = FALSE
    /\ mops' = Append(mops, "get")
    /\ UNCHANGED <<liveSl, liveAbs, cartVars, httpVars>>

\* GetCart: the caller drops the list it held and keeps the new one
MemGet ==
    /\ Len(mops) < MaxMemOps
    /\ LET r == SliceClone(arrays, liveSl)
       IN /\ arrays' = r.arrays
          /\ held' = r.sl
          /\ heldSnap' = ViewOf(r.arrays, r.sl)
    /\ heldDirty' = FALSE
    /\ mops' = Append(mops, "get")
    /\ UNCHANGED <<liveSl, liveAbs, cartVars, httpVars>>

\* the caller changes the quantity of an entry of the list it holds
CallerWrite ==
    /\ Len(mops) < MaxMemOps /\ held.arr # 0
    /\ \E k \in 1..held.len :
         arrays' = [arrays EXCEPT ![held.arr][k].Quantity = @ + 5]
    /\ heldDirty' = TRUE
    /\ mops' = Append(mops, "caller")
    /\ UNCHANGED <<liveSl, held, liveAbs, heldSnap, cartVars, httpVars>>

\* the caller appends an item to the list it holds
CallerAppend ==
    /\ Len(mops) < MaxMemOps /\ held.arr # 0
    /\ \E item \in ObsInputs :
         LET r == SliceAppend(arrays, held, item)
         IN arrays' = r.arrays /\ held' = r.sl
    /\ heldDirty' = TRUE
    /\ mops' = Append(mops, "caller")
    /\ UNCHANGED <<liveSl, liveAbs, heldSnap, cartVars, httpVars>>

\* the caller deletes an entry from the list it holds
CallerRemove ==
    /\ Len(mops) < MaxMemOps /\ held.arr # 0
    /\ \E k \in 1..held.len :
         LET r == SliceRemove(arrays, held, k)
         IN arrays' = r.arrays /\ held' = r.sl
    /\ heldDirty' = TRUE
    /\ mops' = Append(mops, "caller")
    /\ UNCHANGED <<liveSl, liveAbs, heldSnap, cartVars, httpVars>>

\* ---------------------------------------------------------------- withMetrics
\* One request at a time through the middleware and its handler; the store
\* calls a handler makes run to their end within the handler's step.
frameVars == <<storeW, storeR, pc, call, cartRef, ret, ncalls, obsVars, histVars>>
logVars   == <<reqLog, latLog, errLog>>

\* cs.carts[userID], for any string
Lookup(u) == IF u \in DOMAIN carts THEN carts[u] ELSE NoCart

\* faulty variant: the code is passed on but not kept
WriteHeaderDropped(statusCode, code) == statusCode

\* responseWriter.WriteHeader: the new value of rw.statusCode
WriteHeader(statusCode, code) == code

\* faulty variant: the boundary status 500 counts as a client error
ErrorTypeStrict(statusCode) ==
    IF statusCode > 500 THEN "server_error" ELSE "client_error"

\* errorType as withMetrics chooses it for a status of 400 or more
ErrorType(statusCode) ==
    IF statusCode >= 500 THEN "server_error" ELSE "client_error"

\* the attributes recordRequest and recordLatency attach
RequestAttrs(r, statusCode) ==
    [method |-> r.method, endpoint |-> r.path, status_code |-> statusCode]

\* the attributes recordError attaches
ErrorAttrs(r, statusCode) ==
    [error_type |-> ErrorType(statusCode), endpoint |-> r.path,
     status_code |-> statusCode]

\* http.Error(w, msg, code): the handler's only use of WriteHeader
HttpError(code) ==
    /\ hstatus' = WriteHeader(hstatus, code)
    /\ hcode' = code

\* the handler writes its body without calling WriteHeader
HttpBodyOnly == hstatus' = hstatus /\ hcode' = hcode

\* the wrapped handler is entered: wrapped.statusCode is http.StatusOK
HttpStart ==
    /\ hpc = "idle" /\ nreqs < MaxRequests
    /\ \E r \in Requests : hreq' = r
    /\ hstatus' = StatusOK
    /\ hcode' = 0
    /\ hpc' = "handler"
    /\ nreqs' = nreqs + 1
    /\ UNCHANGED <<cartVars, memVars, logVars>>

\* ms.service.AddToCart(ctx, u, item), run from its first to its last line
DoAddToCart(u, item) ==
    LET new  == Lookup(u) = NoCart
        c    == IF new THEN Len(heap) + 1 ELSE Lookup(u)
        h    == IF new THEN Append(heap, [UserID |-> u, Items |-> << >>])
                ELSE heap
    IN /\ carts' = [carts EXCEPT ![u] = c]
       /\ heap' = [h EXCEPT ![c].Items = MergeOrAppend(@, item)]
       /\ cartW' = IF new THEN Append(cartW, {}) ELSE cartW
       /\ cartR' = IF new THEN Append(cartR, {}) ELSE cartR

\* the items of u's cart as AddToCart finds them
ItemsFor(u) == IF Lookup(u) = NoCart THEN << >> ELSE heap[Lookup(u)].Items

\* the response to the error AddToCart returned
AddResponse(err) == IF err # "nil" THEN HttpError(500) ELSE HttpBodyOnly

\* faulty variant: the required fields are not checked
HandleAddToCartUnchecked ==
    /\ hpc = "handler" /\ hreq.path = "/cart/add"
    /\ IF hreq.method # "POST"
       THEN HttpError(405) /\ UNCHANGED <<storeVars, cartW, cartR>>
       ELSE IF ~hreq.bodyOK
       THEN HttpError(400) /\ UNCHANGED <<storeVars, cartW, cartR>>
       ELSE /\ DoAddToCart(hreq.user, hreq.item)
            /\ AddResponse(AddResult(ItemsFor(hreq.user), hreq.item))
    /\ hpc' = "record"
    /\ UNCHANGED <<frameVars, memVars, logVars, hreq, nreqs>>

\* faulty variant: the required fields are checked after the item is stored
HandleAddToCartLateCheck ==
    /\ hpc = "handler" /\ hreq.path = "/cart/add"
    /\ IF hreq.method # "POST"
       THEN HttpError(405) /\ UNCHANGED <<storeVars, cartW, cartR>>
       ELSE IF ~hreq.bodyOK
       THEN HttpError(400) /\ UNCHANGED <<storeVars, cartW, cartR>>
       ELSE /\ DoAddToCart(hreq.user, hreq.item)
            /\ IF hreq.user = "" \/ hreq.item.ID = ""
               THEN HttpError(400)
               ELSE AddResponse(AddResult(ItemsFor(hreq.user), hreq.item))
    /\ hpc' = "record"
    /\ UNCHANGED <<frameVars, memVars, logVars, hreq, nreqs>>

HandleAddToCart ==
    /\ hpc = "handler" /\ hreq.path = "/cart/add"
    /\ IF hreq.method # "POST"
       THEN HttpError(405) /\ UNCHANGED <<storeVars, cartW, cartR>>
       ELSE IF ~hreq.bodyOK
       THEN HttpError(400) /\ UNCHANGED <<storeVars, cartW, cartR>>
       ELSE IF hreq.user = "" \/ hreq.item.ID = ""
       THEN HttpError(400) /\ UNCHANGED <<storeVars, cartW, cartR>>
       ELSE /\ DoAddToCart(hreq.user, hreq.item)
            /\ AddResponse(AddResult(ItemsFor(hreq.user), hreq.item))
    /\ hpc' = "record"
    /\ UNCHANGED <<frameVars, memVars, logVars, hreq, nreqs>>

HandleGetCart ==
    /\ hpc = "handler" /\ hreq.path = "/cart/get"
    /\ IF hreq.method # "GET" THEN HttpError(405)
       ELSE IF hreq.user = "" THEN HttpError(400)
       ELSE IF Lookup(hreq.user) = NoCart THEN HttpError(404)
       ELSE HttpBodyOnly
    /\ hpc' = "record"
    /\ UNCHANGED <<cartVars, memVars, logVars, hreq, nreqs>>

HandleRemoveFromCart ==
    /\ hpc = "handler" /\ hreq.path = "/cart/remove"
    /\ IF hreq.method # "DELETE"
       THEN HttpError(405) /\ UNCHANGED storeVars
       ELSE IF ~hreq.bodyOK
       THEN HttpError(400) /\ UNCHANGED storeVars
       ELSE IF Lookup(hreq.user) = NoCart
       THEN HttpError(404) /\ UNCHANGED storeVars
       ELSE LET c == Lookup(hreq.user)
                i == IndexOf(heap[c].Items, hreq.itemID)
            IN IF i = 0
               THEN HttpError(404) /\ UNCHANGED storeVars
               ELSE /\ heap' = [heap EXCEPT ![c].Items = RemoveAt(@, i)]
                    /\ carts' = carts
                    /\ HttpBodyOnly
    /\ hpc' = "record"
    /\ UNCHANGED <<cartW, cartR, frameVars, memVars, logVars, hreq, nreqs>>

HandleHealth ==
    /\ hpc = "handler" /\ hreq.path = "/health"
    /\ HttpBodyOnly
    /\ hpc' = "record"
    /\ UNCHANGED <<cartVars, memVars, logVars, hreq, nreqs>>

HandleSimulateError ==
    /\ hpc = "handler" /\ hreq.path = "/simulate-error"
    /\ \E code \in SimulatedCodes : HttpError(code)
    /\ hpc' = "record"
    /\ UNCHANGED <<cartVars, memVars, logVars, hreq, nreqs>>

\* the handler has returned: recordRequest, recordLatency and, for a status
\* of 400 or more, recordError
HttpRecord ==
    /\ hpc = "record"
    /\ reqLog' = Append(reqLog, RequestAttrs(hreq, hstatus))
    /\ latLog' = Append(latLog, RequestAttrs(hreq, hstatus))
    /\ errLog' = IF hstatus >= 400
                 THEN Append(errLog, ErrorAttrs(hreq, hstatus))
                 ELSE errLog
    /\ hpc' = "idle"
    /\ UNCHANGED <<cartVars, memVars, hreq, hstatus, hcode, nreqs>>

\* ---------------------------------------------------------------- specification
\* the steps inside a call
WorkerBody(p) ==
    \/ AddLock(p)
    \/ AddLookup(p)
    \/ AddCreate(p)
    \/ AddCartLock(p)
    \/ AddItems(p)
    \/ AddReturn(p)
    \/ GetLock(p)
    \/ GetLookup(p)
    \/ GetCartLock(p)
    \/ GetCopy(p)
    \/ GetReturn(p)
    \/ RemoveLock(p)
    \/ RemoveLookup(p)
    \/ RemoveUnlock(p)
    \/ RemoveCartLock(p)
    \/ RemoveItems(p)
    \/ RemoveReturn(p)

WorkerStep(p) ==
    \/ GetCall(p)
    \/ RemoveCall(p)
    \/ WorkerBody(p)

ObsStep ==
    \/ ObsCall
    \/ ObsLock
    \/ ObsNext
    \/ ObsCartLock
    \/ ObsSum
    \/ ObsObserve
    \/ ObsReturn

\* ---------------------------------------------------------------- waiting for locks
\* sync.RWMutex as the goroutines wait on it. Lock() first takes the
\* writers' mutex rw.w, which a writer keeps until Unlock(), and announces
\* itself; from then on RLock() blocks, and the writer goes on when the
\* readers that hold the lock have left.
StoreWriterPending   == \E q \in Workers : pc[q] = "a_lockw"
CartWriterPending(c) ==
    \E q \in Workers : pc[q] \in {"a_cartlockw", "r_cartlockw"} /\ cartRef[q] = c

\* Lock() up to the announcement
LockWait(p, from, to) ==
    /\ pc[p] = from
    /\ pc' = [pc EXCEPT ![p] = to]
    /\ UNCHANGED <<storeVars, lockVars, call, cartRef, ret, ncalls, obsVars, histVars>>
    /\ UNCHANGED sideVars

AddLockWait(p) ==
    /\ storeW = {} /\ ~StoreWriterPending
    /\ LockWait(p, "a_lock", "a_lockw")

AddCartLockWait(p) ==
    /\ pc[p] = "a_cartlock"
    /\ cartW[cartRef[p]] = {} /\ ~CartWriterPending(cartRef[p])
    /\ LockWait(p, "a_cartlock", "a_cartlockw")

RemoveCartLockWait(p) ==
    /\ pc[p] = "r_cartlock"
    /\ cartW[cartRef[p]] = {} /\ ~CartWriterPending(cartRef[p])
    /\ LockWait(p, "r_cartlock", "r_cartlockw")

\* Lock() from the announcement on
AddLockGranted(p)        == pc[p] = "a_lockw" /\ AddLock(p)
AddCartLockGranted(p)    == pc[p] = "a_cartlockw" /\ AddCartLock(p)
RemoveCartLockGranted(p) == pc[p] = "r_cartlockw" /\ RemoveCartLock(p)

\* RLock() with no writer announced
GetLockAdmitted(p)     == ~StoreWriterPending /\ GetLock(p)
RemoveLockAdmitted(p)  == ~StoreWriterPending /\ RemoveLock(p)
ObsLockAdmitted        == ~StoreWriterPending /\ ObsLock
GetCartLockAdmitted(p) ==
    /\ pc[p] = "g_cartlock"
    /\ ~CartWriterPending(cartRef[p])
    /\ GetCartLock(p)
ObsCartLockAdmitted ==
    /\ pc[Obs] = "o_cartlock"
    /\ ~CartWriterPending(cartRef[Obs])
    /\ ObsCartLock

\* a request goroutine goes on with the call it is in
WorkerRun(p) ==
    \/ AddLockWait(p)
    \/ AddLockGranted(p)
    \/ AddLookup(p)
    \/ AddCreate(p)
    \/ AddCartLockWait(p)
    \/ AddCartLockGranted(p)
    \/ AddItems(p)
    \/ AddReturn(p)
    \/ GetLockAdmitted(p)
    \/ GetLookup(p)
    \/ GetCartLockAdmitted(p)
    \/ GetCopy(p)
    \/ GetReturn(p)
    \/ RemoveLockAdmitted(p)
    \/ RemoveLookup(p)
    \/ RemoveUnlock(p)
    \/ RemoveCartLockWait(p)
    \/ RemoveCartLockGranted(p)
    \/ RemoveItems(p)
    \/ RemoveReturn(p)

\* the callback goes on with the collection it is in
ObsRun ==
    \/ ObsLockAdmitted
    \/ ObsNext
    \/ ObsCartLockAdmitted
    \/ ObsSum
    \/ ObsObserve
    \/ ObsReturn

\* the request goroutines alone
Next ==
    \/ \E p \in Workers : AddCall(p)
    \/ \E p \in Workers : WorkerStep(p)

Spec == Init /\ [][Next]_vars

\* a request goroutine and the periodic metrics collection
NextObs ==
    \/ \E p \in ObsWorkers : ObsAddCall(p)
    \/ \E p \in ObsWorkers : WorkerStep(p)
    \/ ObsStep

SpecObs == Init /\ [][NextObs]_vars

\* the request goroutines and the periodic metrics collection, fewer calls
AllAddCall(p)    == ncalls < AllMaxCalls /\ ObsAddCall(p)
AllGetCall(p)    == ncalls < AllMaxCalls /\ GetCall(p)
AllRemoveCall(p) == ncalls < AllMaxCalls /\ RemoveCall(p)

NextAll ==
    \/ \E p \in Workers : AllAddCall(p)
    \/ \E p \in Workers : AllGetCall(p)
    \/ \E p \in Workers : AllRemoveCall(p)
    \/ \E p \in Workers : WorkerBody(p)
    \/ ObsStep

SpecAll == Init /\ [][NextAll]_vars

\* the same goroutines waiting on the locks: calls and collections start at
\* any time or never, and the scheduler lets every goroutine that can go on
\* do so eventually
LiveAddCall(p) == ncalls < AllMaxCalls /\ AddCallOf(p, LiveInputs)

NextLive ==
    \/ \E p \in Workers : LiveAddCall(p)
    \/ \E p \in Workers : AllGetCall(p)
    \/ \E p \in Workers : AllRemoveCall(p)
    \/ \E p \in Workers : WorkerRun(p)
    \/ ObsCall
    \/ ObsRun

SpecLive ==
    /\ Init /\ [][NextLive]_vars
    /\ \A p \in Workers : WF_vars(WorkerRun(p))
    /\ WF_vars(ObsRun)

\* one cart's memory and the caller of GetCart
NextMem ==
    \/ MemAdd
    \/ MemRemove
    \/ MemGet
    \/ CallerWrite
    \/ CallerAppend
    \/ CallerRemove

SpecMem == Init /\ [][NextMem]_vars

\* the HTTP server, one request after the other
NextHttp ==
    \/ HttpStart
    \/ HandleAddToCart
    \/ HandleGetCart
    \/ HandleRemoveFromCart
    \/ HandleHealth
    \/ HandleSimulateError
    \/ HttpRecord

SpecHttp == Init /\ [][NextHttp]_vars

\* ---------------------------------------------------------------- properties
HasItem(items, id) == \E k \in 1..Len(items) : items[k].ID = id
EntriesOf(items, id) == {k \in 1..Len(items) : items[k].ID = id}
ItemsOf(u) == IF HasCart(u) THEN LiveItems(u) ELSE << >>
\* the stored quantity of item id i of user u, 0 if there is no such entry
QtyOf(u, i) ==
    LET items == ItemsOf(u) IN
    IF HasItem(items, i) THEN items[IndexOf(items, i)].Quantity ELSE 0
NoDuplicateIDs(items) ==
    \A j, k \in 1..Len(items) : j # k => items[j].ID # items[k].ID
\* the step is taken by goroutine p
StepOf(p) == pc'[p] # pc[p]
\* goroutine p's call fixes its result in this step
Decides(p) == ret[p] = NoRet /\ ret'[p] # NoRet

\* C1: AddToCart calls of one user with the same item id, not separated by a
\* removal of that id, leave exactly one entry for the id in the user's cart,
\* whose quantity is the sum of the quantities added.
C1_QuantityIsSumOfAdds ==
    \A u \in Users, i \in ItemIDs :
        LET items == ItemsOf(u)
            es    == EntriesOf(items, i)
        IN IF addedSum[u][i].present
           THEN /\ Cardinality(es) = 1
                /\ \A k \in es : items[k].Quantity = addedSum[u][i].sum
           ELSE es = {}

\* three or more units of one id have been added by at least two calls
C1_Witness ==
    \E u \in Users, i \in ItemIDs :
        /\ addedSum[u][i].present /\ addedSum[u][i].sum >= 3
        /\ QtyOf(u, i) = addedSum[u][i].sum

\* C2: two concurrent AddToCart calls for the same user and item id lose no
\* update: once no such call is running (and no removal was ever issued), the
\* stored quantity is the sum of the quantities of all the calls that returned.
C2_NoLostUpdate ==
    \A u \in Users, i \in ItemIDs :
        (~anyRemove /\ ~(\E p \in Workers : InAdd(p, u, i)))
            => QtyOf(u, i) = landed[u][i]

\* two overlapping calls for the same user and id have both returned
C2_Witness ==
    \E u \in Users, i \in ItemIDs :
        /\ <<u, i>> \in concAdds
        /\ ~anyRemove
        /\ \A p \in Workers : ~Running(p)
        /\ landed[u][i] >= 2
        /\ QtyOf(u, i) = landed[u][i]

\* C3: the list GetCart is about to return is the cart's item list as it is
\* stored, with no duplicated id and no entry left unfilled, also when an
\* AddToCart call for the same user is under way.
C3_GetCartSeesWholeList ==
    \A p \in Workers :
        (pc[p] = "g_ret" /\ ret[p].err = "nil") =>
            /\ ret[p].cart.Items = LiveItems(call[p].user)
            /\ NoDuplicateIDs(ret[p].cart.Items)
            /\ \A k \in 1..Len(ret[p].cart.Items) : ret[p].cart.Items[k] # ZeroItem

\* GetCart has copied a non-empty cart while an AddToCart for the same user waits
C3_Witness ==
    \E p, q \in Workers :
        /\ p # q
        /\ pc[p] = "g_ret" /\ ret[p].err = "nil" /\ ret[p].cart.Items # << >>
        /\ Running(q) /\ call[q].op = "add" /\ call[q].user = call[p].user

\* C4: the pair observeCartMetrics reports is the pair of one store state that
\* existed between the start and the end of the invocation.
C4_ObserverSnapshotConsistent ==
    pc[Obs] = "o_ret" => reported \in obsSeen

\* C5: AddToCart does its item-level work without the store-wide lock.
C5_AddItemWorkWithoutStoreLock ==
    \A p \in Workers : pc[p] = "a_items" => p \notin storeW

\* C6: no item id appears twice within one cart.
C6_UniqueItemIDs ==
    \A a \in 1..Len(heap) : NoDuplicateIDs(heap[a].Items)

\* a cart holds two ids, one of them merged, and a removal has run
C6_Witness ==
    \E u \in Users :
        /\ HasCart(u) /\ Len(LiveItems(u)) = 2
        /\ \E i \in ItemIDs : addedSum[u][i].sum >= 3
        /\ anyRemove

\* C7: at most one Cart per user: every Cart ever allocated is the one the
\* mapping holds for its UserID, the key of every entry is its cart's UserID,
\* and an AddToCart call works on the cart the mapping holds for its user.
C7_OneCartPerUser ==
    /\ \A a \in 1..Len(heap) : carts[heap[a].UserID] = a
    /\ \A u \in Users : HasCart(u) => heap[carts[u]].UserID = u
    /\ \A p \in Workers :
          (call[p].op = "add" /\ pc[p] \in {"a_cartlock", "a_items", "a_ret"})
              => cartRef[p] = carts[call[p].user]

\* a call has just created the cart of a user while a second call for the
\* same, until then unknown, user waits
C7_Witness ==
    \E p, q \in Workers :
        /\ p # q /\ ~anyRemove
        /\ pc[p] = "a_cartlock" /\ heap[cartRef[p]].Items = << >>
        /\ pc[q] = "a_lock" /\ call[q].user = call[p].user

\* C8: RemoveFromCart fails with NotFound exactly when the user has no cart
\* and with ItemNotFound exactly when the cart exists without the item id, and
\* no step of a failing call changes the mapping or any cart.
C8_RemoveFailures ==
    [][\A p \in Workers :
        (call[p].op = "remove" /\ StepOf(p)) =>
            LET u == call[p].user
                i == call[p].itemID
            IN /\ Decides(p) =>
                    /\ (ret'[p].err = "NotFound") <=> ~HasCart(u)
                    /\ (ret'[p].err = "ItemNotFound") <=>
                           (HasCart(u) /\ ~HasItem(ItemsOf(u), i))
                    /\ ret'[p].err = "NotFound" => ret'[p].id = u
                    /\ ret'[p].err = "ItemNotFound" => ret'[p].id = i
               /\ (~Decides(p) \/ ret'[p].err \in {"NotFound", "ItemNotFound"})
                    => storeVars' = storeVars
      ]_vars

\* one call is returning NotFound while another returns ItemNotFound
C8_Witness ==
    \E p, q \in Workers :
        /\ pc[p] = "r_ret" /\ ret[p].err = "NotFound"
        /\ pc[q] = "r_ret" /\ ret[q].err = "ItemNotFound"
        /\ Len(LiveItems(call[q].user)) >= 1

\* C9: GetCart for a user without a cart fails with NotFound naming the user,
\* and no step of a GetCart call changes the mapping or any cart (so no cart
\* is created).
C9_GetCartNotFound ==
    [][\A p \in Workers :
        (call[p].op = "get" /\ StepOf(p)) =>
            /\ storeVars' = storeVars
            /\ Decides(p) =>
                 /\ (ret'[p].err = "NotFound") <=> ~HasCart(call[p].user)
                 /\ ret'[p].err = "NotFound" =>
                        (ret'[p].id = call[p].user /\ ret'[p].cart = NilCopy)
      ]_vars

\* a GetCart is returning NotFound for a user that still has no cart, while
\* another user has one
C9_Witness ==
    \E p \in Workers :
        /\ pc[p] = "g_ret" /\ ret[p].err = "NotFound"
        /\ ~HasCart(call[p].user)
        /\ UsersWithCart # {}

\* C10: RemoveFromCart of an item id present in the user's cart succeeds,
\* takes exactly the entry with that id out of that cart, which gets one
\* shorter with its other entries as they were, and leaves the mapping and
\* every other cart as they were.
C10_RemoveTakesOneEntry ==
    [][\A p \in Workers :
        (call[p].op = "remove" /\ StepOf(p) /\ Decides(p) /\ HasCart(call[p].user)
            /\ HasItem(LiveItems(call[p].user), call[p].itemID)) =>
            LET u   == call[p].user
                c   == carts[u]
                old == heap[c].Items
                new == heap'[c].Items
                Other(e) == e.ID # call[p].itemID
            IN /\ ret'[p].err = "nil"
               /\ Len(new) = Len(old) - 1
               /\ new = SelectSeq(old, Other)
               /\ heap'[c].UserID = heap[c].UserID
               /\ Len(heap') = Len(heap)
               /\ \A a \in 1..Len(heap) : a # c => heap'[a] = heap[a]
               /\ carts' = carts
      ]_vars

\* an entry has been removed from a cart that keeps another entry
C10_Witness ==
    \E p \in Workers :
        /\ pc[p] = "r_ret" /\ ret[p].err = "nil"
        /\ Len(LiveItems(call[p].user)) >= 1
        /\ ~HasItem(LiveItems(call[p].user), call[p].itemID)

\* the store did not change since the running observation was invoked
QuietObservation == pc[Obs] = "o_ret" /\ Cardinality(obsSeen) = 1
\* the users a Cart was ever allocated for
UsersOfHeap == {heap[a].UserID : a \in 1..Len(heap)}

\* the quantities stored for a set of <<user, item id>> pairs, added up
RECURSIVE StoredQty(_)
StoredQty(S) ==
    IF S = {} THEN 0
    ELSE LET x == CHOOSE y \in S : TRUE
         IN QtyOf(x[1], x[2]) + StoredQty(S \ {x})

\* C11: an observation during which no call changes the store reports, as
\* total quantity, the sum of the quantities of all items of all carts, and,
\* as active users, the number of users that have a cart.
C11_ObserverReportsTotals ==
    QuietObservation =>
        /\ reported[1] = StoredQty(Users \X ItemIDs)
        /\ reported[2] = Cardinality(UsersWithCart)

\* four or more units held by two users have been reported
C11_Witness ==
    /\ QuietObservation
    /\ reported[2] = 2 /\ reported[1] >= 4
    /\ \A u \in Users : HasCart(u) /\ LiveItems(u) # << >>

\* C12: once every item of a user's cart has been removed, an observation
\* still counts that user as active, and its total quantity is what the
\* other carts hold.
C12_EmptiedCartStillCounted ==
    QuietObservation =>
        \A u \in Users :
            (HasCart(u) /\ LiveItems(u) = << >>) =>
                /\ reported[2] = Cardinality(UsersOfHeap)
                /\ u \in UsersOfHeap
                /\ reported[1] = StoredQty((Users \ {u}) \X ItemIDs)

\* one user's cart has been emptied by removals, another user's holds items
C12_Witness ==
    /\ QuietObservation /\ anyRemove
    /\ reported[2] = 2 /\ reported[1] >= 1
    /\ \E u \in Users : HasCart(u) /\ LiveItems(u) = << >>

\* C18: observeCartMetrics is read-only and cannot fail: none of its steps
\* changes the mapping or a cart, it returns nil, and on a store without
\* carts it reports 0 for both values.
C18_ObserverReadOnly ==
    [][StepOf(Obs) =>
          /\ storeVars' = storeVars
          /\ pc'[Obs] = "o_ret" =>
                /\ obsErr' = "nil"
                /\ UsersWithCart = {} => reported' = <<0, 0>>
      ]_vars

\* the callback is returning from an observation of the store without carts
\* while a request goroutine's call is under way
C18_Witness ==
    /\ pc[Obs] = "o_ret" /\ obsErr = "nil"
    /\ UsersWithCart = {} /\ reported = <<0, 0>>
    /\ \E p \in Workers : Running(p)

\* goroutine p is where AddToCart or RemoveFromCart reads and writes the
\* item list of the Cart at address c
InItemSection(p, c) == pc[p] \in {"a_items", "r_items"} /\ cartRef[p] = c

\* C15: a RemoveFromCart and an AddToCart, or two RemoveFromCart calls, are
\* never both inside the section that reads and writes the item list of the
\* same cart.
C15_ItemSectionExclusive ==
    \A p, q \in Workers :
        p # q => \A c \in 1..Len(heap) : ~(InItemSection(p, c) /\ InItemSection(q, c))

\* a RemoveFromCart is inside the section while an AddToCart for the same
\* cart waits for the cart lock
C15_Witness ==
    \E p, q \in Workers :
        /\ pc[p] = "r_items" /\ pc[q] = "a_cartlock"
        /\ cartRef[p] = cartRef[q]

\* where each goroutine is about to read or write the mapping or an item list
ReadsMap(p)    == pc[p] \in {"a_lookup", "g_lookup", "r_lookup", "o_range"}
WritesMap(p)   == pc[p] = "a_create"
ReadsItems(p)  == pc[p] \in {"g_copy", "o_sum"}
WritesItems(p) == pc[p] \in {"a_items", "r_items"}
\* a sync.RWMutex has one writer and no reader, or readers only
WellHeld(w, r) == Cardinality(w) <= 1 /\ (w # {} => r = {})

\* C16: the mapping is read only under the store lock (shared or exclusive)
\* and written only under the store lock held exclusively; an item list is
\* read only under its cart's lock and written only under that lock held
\* exclusively; a lock held exclusively has no other holder.
C16_LockDiscipline ==
    /\ WellHeld(storeW, storeR)
    /\ \A c \in 1..Len(heap) : WellHeld(cartW[c], cartR[c])
    /\ \A p \in Procs :
          /\ ReadsMap(p)    => p \in storeR \cup storeW
          /\ WritesMap(p)   => p \in storeW
          /\ ReadsItems(p)  => p \in cartR[cartRef[p]] \cup cartW[cartRef[p]]
          /\ WritesItems(p) => p \in cartW[cartRef[p]]

\* GetCart and the callback read the item list of a cart that a
\* RemoveFromCart is waiting to write
C16_Witness ==
    \E p, q \in Workers :
        /\ pc[p] = "g_copy" /\ pc[Obs] = "o_sum" /\ pc[q] = "r_cartlock"
        /\ cartRef[p] = cartRef[q] /\ cartRef[Obs] = cartRef[q]
        /\ heap[cartRef[q]].Items # << >>

\* goroutine p runs a read operation
Reading(p) == IF p = Obs THEN Running(p) ELSE Running(p) /\ call[p].op = "get"

\* C17: GetCart and the callback take locks only shared, and while nothing
\* but read operations is in progress each of them can take the lock it is
\* waiting for at once.
C17_ReadersNeverBlock ==
    /\ \A p \in Procs :
          Reading(p) => /\ p \notin storeW
                        /\ \A c \in 1..Len(heap) : p \notin cartW[c]
    /\ (\A p \in Procs : Running(p) => Reading(p)) =>
          \A p \in Procs :
              /\ pc[p] \in {"g_lock", "o_lock"} => CanRLock(storeW, storeR)
              /\ pc[p] \in {"g_cartlock", "o_cartlock"} =>
                    CanRLock(cartW[cartRef[p]], cartR[cartRef[p]])

\* two GetCart calls and the callback hold the store lock and the lock of
\* the same cart, all shared
C17_Witness ==
    \E p, q \in Workers :
        /\ p # q
        /\ {p, q, Obs} \subseteq storeR
        /\ cartRef[p] # NoCart /\ {p, q, Obs} \subseteq cartR[cartRef[p]]

\* the operation this step does on the cart's memory
MemOp(kind) == mops' # mops /\ mops'[Len(mops')] = kind
LastMemOp == IF mops = << >> THEN "none" ELSE mops[Len(mops)]

\* C13: a caller changing the list GetCart returned to it leaves the cart's
\* own list as it was, and the GetCart that follows returns the cart's list,
\* not the caller's changes.
C13_ReturnedListDetached ==
    [][/\ MemOp("caller") =>
            /\ liveSl' = liveSl
            /\ ViewOf(arrays', liveSl') = ViewOf(arrays, liveSl)
       /\ (MemOp("get") /\ heldDirty) =>
            /\ ViewOf(arrays', held') = liveAbs
            /\ ViewOf(arrays', liveSl') = liveAbs
      ]_vars

\* the caller changed a list of two entries it had got, and got the cart's
\* two entries again
C13_Witness ==
    /\ LastMemOp = "get" /\ Len(mops) >= 4
    /\ mops[Len(mops) - 1] = "caller"
    /\ Len(liveAbs) = 2
    /\ ViewOf(arrays, held) = liveAbs

\* C14: the list GetCart returned stays what it was when it was returned,
\* whatever AddToCart (merging or appending) and RemoveFromCart (moving the
\* entries of the live list in place) do afterwards.
C14_ReturnedCopyStable ==
    (held.arr # 0 /\ ~heldDirty) => ViewOf(arrays, held) = heldSnap

\* after GetCart returned two entries, one was removed from the cart and the
\* quantity of the other was raised
C14_Witness ==
    /\ held.arr # 0 /\ ~heldDirty
    /\ Len(heldSnap) = 2 /\ Len(liveAbs) = 1
    /\ liveAbs[1].ID = heldSnap[2].ID
    /\ liveAbs[1].Quantity > heldSnap[2].Quantity
    /\ ViewOf(arrays, held) = heldSnap

\* the step that completes a request: the wrapped handler has returned and
\* the middleware has recorded
Completes == hpc = "record" /\ hpc' = "idle"
\* the status of the request: the one its handler set, 200 if it set none
ResultStatus == IF hcode = 0 THEN 200 ELSE hcode
Last(log) == log[Len(log)]

\* C19: a request completing through the middleware adds exactly one
\* increment to the request counter and exactly one latency observation,
\* both with the request's method, its path and its resulting status; no
\* other step records either.
C19_OneRequestOneRecord ==
    [][IF Completes
       THEN LET want == [method |-> hreq.method, endpoint |-> hreq.path,
                         status_code |-> ResultStatus]
            IN /\ reqLog' = Append(reqLog, want)
               /\ latLog' = Append(latLog, want)
       ELSE UNCHANGED <<reqLog, latLog>>
      ]_vars

\* a request answered 404 and a request answered without WriteHeader have
\* both been recorded
C19_Witness ==
    /\ hpc = "idle" /\ Len(reqLog) = 2 /\ latLog = reqLog
    /\ reqLog[1].status_code = 404 /\ reqLog[1].endpoint = "/cart/remove"
    /\ reqLog[2].status_code = 200 /\ reqLog[2].endpoint = "/cart/add"

\* C20: the error counter is incremented exactly once for a request
\* recorded with a status of 400 or more, as client_error for 400..499 and
\* as server_error for 500 and more, with the path and status labels of the
\* request counter, and not at all for a status below 400.
C20_ErrorCounter ==
    [][IF Completes
       THEN LET rec == Last(reqLog')
                st  == rec.status_code
            IN IF st >= 400
               THEN errLog' = Append(errLog,
                        [error_type  |-> IF st <= 499 THEN "client_error"
                                         ELSE "server_error",
                         endpoint    |-> rec.endpoint,
                         status_code |-> st])
               ELSE errLog' = errLog
       ELSE errLog' = errLog
      ]_vars

\* of two requests, the one answered 500 was counted as a server error and
\* the one answered 200 was not counted
C20_Witness ==
    /\ hpc = "idle" /\ Len(reqLog) = 2 /\ Len(errLog) = 1
    /\ errLog[1].error_type = "server_error" /\ errLog[1].status_code = 500
    /\ reqLog[2].status_code = 200

\* C21: every item stored in a cart has a quantity of 1 or more, whatever
\* add requests the service has accepted.
C21_QuantityPositive ==
    \A a \in 1..Len(heap) :
        \A k \in 1..Len(heap[a].Items) : heap[a].Items[k].Quantity >= 1

\* no Cart of the heap h is for the empty user id or holds an item with
\* the empty id
NoEmptyIDs(h) ==
    \A a \in 1..Len(h) :
        /\ h[a].UserID # ""
        /\ \A k \in 1..Len(h[a].Items) : h[a].Items[k].ID # ""
\* the step in which the handler of the request runs
Handles == hpc = "handler" /\ hpc' = "record"
\* nothing is created in the store: no cart, no entry
NothingCreated ==
    /\ carts' = carts /\ Len(heap') = Len(heap)
    /\ \A a \in 1..Len(heap) : Len(heap'[a].Items) <= Len(heap[a].Items)

\* C29: over any sequence of requests the store holds no cart for the empty
\* user id and no item with the empty id: an add request with an empty
\* user_id or item id is answered 400 with the store untouched, and only an
\* add request creates a cart or an entry.
C29_NoEmptyIDsStored ==
    [][/\ NoEmptyIDs(heap')
       /\ (Handles /\ hreq.path = "/cart/add" /\ hreq.method = "POST" /\ hreq.bodyOK
              /\ (hreq.user = "" \/ hreq.item.ID = "")) =>
             (hcode' = 400 /\ hstatus' = 400 /\ storeVars' = storeVars)
       /\ ~(Handles /\ hreq.path = "/cart/add") => NothingCreated
      ]_vars

\* an add request without item id has been answered 400 after another add
\* request had stored an item
C29_Witness ==
    /\ hpc = "idle" /\ Len(reqLog) = 2
    /\ hreq.path = "/cart/add" /\ hreq.method = "POST" /\ hreq.bodyOK
    /\ hreq.user # "" /\ hreq.item.ID = ""
    /\ reqLog[2].status_code = 400
    /\ Len(heap) = 1 /\ Len(heap[1].Items) = 1

\* C30: a request to the add, get or remove endpoint that is recorded with
\* a status of 400 or more has left the store as it was; the store changes
\* only in the handler of an add or remove request that is recorded with
\* status 200.
C30_ErrorsLeaveStore ==
    [][/\ Completes => Last(reqLog').status_code = hstatus
       /\ (Handles /\ hstatus' >= 400) => storeVars' = storeVars
       /\ storeVars' # storeVars =>
             /\ Handles
             /\ hreq.path \in {"/cart/add", "/cart/remove"}
             /\ hstatus' = 200
      ]_vars

\* a remove request for an item the cart does not hold has been recorded
\* with 404, and the cart holds what the add request before it stored
C30_Witness ==
    /\ hpc = "idle" /\ Len(reqLog) = 2
    /\ reqLog[1].endpoint = "/cart/add" /\ reqLog[1].status_code = 200
    /\ reqLog[2].endpoint = "/cart/remove" /\ reqLog[2].status_code = 404
    /\ hreq.user = "u1"
    /\ Len(heap) = 1 /\ Len(heap[1].Items) = 1

\* goroutine p does the item-level work of its AddToCart in this step
AddsItem(p) == pc[p] = "a_items" /\ pc'[p] = "a_ret"
\* every Cart but the one at address c is as it was, and so is the mapping
OthersKept(c) ==
    /\ carts' = carts /\ Len(heap') = Len(heap)
    /\ heap'[c].UserID = heap[c].UserID
    /\ \A a \in 1..Len(heap) : a # c => heap'[a] = heap[a]

\* C22: AddToCart of an id the cart already holds changes only the quantity
\* of that entry, by adding the incoming quantity: its id, name, price and
\* position, the length of the list and all other entries stay as stored,
\* whatever name and price the incoming item has.
C22_MergeKeepsEntry ==
    [][\A p \in Workers :
        (AddsItem(p) /\ HasItem(heap[cartRef[p]].Items, call[p].item.ID)) =>
            LET c   == cartRef[p]
                old == heap[c].Items
                new == heap'[c].Items
                i   == IndexOf(old, call[p].item.ID)
            IN /\ Len(new) = Len(old)
               /\ new[i].ID = old[i].ID
               /\ new[i].Name = old[i].Name
               /\ new[i].Price = old[i].Price
               /\ new[i].Quantity = old[i].Quantity + call[p].item.Quantity
               /\ \A k \in 1..Len(old) : k # i => new[k] = old[k]
               /\ OthersKept(c)
      ]_vars

\* an item named n2 has been merged into the second entry of a cart, which
\* keeps the name n1 and holds the quantities of both
C22_Witness ==
    \E p \in Workers :
        /\ pc[p] = "a_ret" /\ call[p].item.Name = "n2"
        /\ Len(heap[cartRef[p]].Items) = 2
        /\ heap[cartRef[p]].Items[2].ID = call[p].item.ID
        /\ heap[cartRef[p]].Items[2].Name = "n1"
        /\ heap[cartRef[p]].Items[2].Quantity = 3

\* C23: GetCart for a user that has a cart succeeds, and what it returns
\* has that user's id and the cart's item list as it is at that moment, the
\* same entries in the same order.
C23_GetCartReturnsCart ==
    [][\A p \in Workers :
        /\ (call[p].op = "get" /\ StepOf(p) /\ Decides(p) /\ HasCart(call[p].user)) =>
              /\ ret'[p].err = "nil"
              /\ ret'[p].cart.UserID = call[p].user
              /\ ret'[p].cart.Items = heap'[carts'[call[p].user]].Items
        /\ (pc[p] = "g_ret" /\ ret[p].err = "nil") =>
              ret[p].cart = [UserID |-> call[p].user, Items |-> LiveItems(call[p].user)]
      ]_vars

\* GetCart returns the two entries of a user's cart after a removal was
\* issued
C23_Witness ==
    \E p \in Workers :
        /\ pc[p] = "g_ret" /\ ret[p].err = "nil" /\ anyRemove
        /\ ret[p].cart.UserID = call[p].user
        /\ Len(ret[p].cart.Items) = 2
        /\ ret[p].cart.Items = LiveItems(call[p].user)

\* C24: AddToCart has no error: every call that reaches its return returns
\* nil, whatever the store holds and whatever runs beside it.
C24_AddNeverFails ==
    \A p \in Workers :
        call[p].op = "add" =>
            IF pc[p] = "a_ret" THEN ret[p].err = "nil" ELSE ret[p] = NoRet

\* an AddToCart that found its id in the cart returns nil while another
\* AddToCart waits for the store lock
C24_Witness ==
    \E p, q \in Workers :
        /\ pc[p] = "a_ret" /\ ret[p].err = "nil"
        /\ QtyOf(call[p].user, call[p].item.ID) > call[p].item.Quantity
        /\ pc[q] = "a_lock"

\* C27: AddToCart of an id the cart does not hold appends the item as the
\* last entry: the list is one longer, the entries it had are as they were
\* and in their order, and the carts of the other users are unchanged.
C27_AppendKeepsOthers ==
    [][\A p \in Workers :
        (AddsItem(p) /\ ~HasItem(heap[cartRef[p]].Items, call[p].item.ID)) =>
            LET c   == cartRef[p]
                old == heap[c].Items
                new == heap'[c].Items
            IN /\ Len(new) = Len(old) + 1
               /\ new[Len(new)] = call[p].item
               /\ \A k \in 1..Len(old) : new[k] = old[k]
               /\ OthersKept(c)
      ]_vars

\* an item has been appended behind another one, in a store with two carts
C27_Witness ==
    \E p \in Workers :
        /\ pc[p] = "a_ret" /\ Len(heap) = 2
        /\ Len(heap[cartRef[p]].Items) = 2
        /\ heap[cartRef[p]].Items[2] = call[p].item
        /\ heap[cartRef[p]].Items[1].ID # call[p].item.ID

\* C26: a cart is created only by AddToCart and never taken away: a user
\* that has a cart keeps that cart in every later state, GetCart for it
\* succeeds, with an empty list once its last item is removed, and the
\* number of active users the callback reports never goes down.
C26_CartsOnlyGrow ==
    [][/\ \A u \in Users : HasCart(u) => carts'[u] = carts[u]
       /\ carts' # carts => \E p \in Workers : call[p].op = "add" /\ StepOf(p)
       /\ \A p \in Workers :
             (call[p].op = "get" /\ StepOf(p) /\ Decides(p) /\ HasCart(call[p].user)) =>
                 /\ ret'[p].err = "nil"
                 /\ LiveItems(call[p].user) = << >> => ret'[p].cart.Items = << >>
       /\ reported'[2] >= reported[2]
      ]_vars

\* GetCart returns the empty list of a cart whose item was removed, after
\* the callback has reported one active user
C26_Witness ==
    \E p \in Workers :
        /\ pc[p] = "g_ret" /\ ret[p].err = "nil" /\ anyRemove
        /\ ret[p].cart.Items = << >>
        /\ reported[2] = 1 /\ Cardinality(UsersWithCart) = 1

\* the atomic store agrees with the map and the item lists
AbsMatches ==
    \A u \in Users :
        absStore[u] = [has   |-> HasCart(u),
                       items |-> IF HasCart(u) THEN LiveItems(u) ELSE << >>]

\* some AddToCart is between creating its cart and storing its item
AddUnderWay == \E p \in Workers : pc[p] \in {"a_cartlock", "a_items"}

\* C28: the store is linearizable. Every call takes effect on the atomic
\* store in one step between its invocation and its return (AddToCart when
\* it stores the item, GetCart when it copies or misses the cart,
\* RemoveFromCart when it misses the cart or edits the list), so the order
\* of these steps respects the order of calls that do not overlap; every
\* call returns what the atomic store answered at that step, and whenever no
\* AddToCart is half way the store holds what the atomic store holds, in
\* particular when all calls have returned.
C28_Linearizable ==
    /\ \A p \in Workers :
          pc[p] \in {"a_ret", "g_ret", "r_ret"} => ret[p] = absRet[p]
    /\ ~AddUnderWay => AbsMatches

\* RemoveFromCart missed the cart and released the store lock; before it
\* returned "cart not found" an overlapping AddToCart created that cart and
\* stored its item
C28_Witness ==
    \E p, q \in Workers :
        /\ pc[p] = "r_ret" /\ call[p].op = "remove"
        /\ ret[p].err = "NotFound"
        /\ pc[q] = "a_ret" /\ call[q].user = call[p].user
        /\ HasCart(call[p].user)
        /\ LiveItems(call[p].user) = <<call[q].item>>

\* goroutine p holds neither the store lock nor a cart lock
HoldsNoLock(p) ==
    /\ p \notin storeW \cup storeR
    /\ \A c \in 1..Len(heap) : p \notin cartW[c] \cup cartR[c]

\* C25: under fair scheduling every call of AddToCart, GetCart and
\* RemoveFromCart and every collection of the callback that has started
\* returns, whatever else runs at the same time, so no goroutine waits for a
\* lock for ever; and a goroutine that is not inside a call holds no lock,
\* whether its call succeeded or failed.
C25_EveryCallReturns ==
    /\ \A p \in Procs : Running(p) ~> ~Running(p)
    /\ [](\A p \in Procs : ~Running(p) => HoldsNoLock(p))

\* AddToCart has announced itself on the store lock while the callback
\* holds it shared and waits for a cart that RemoveFromCart has locked
C25_Witness ==
    \E p, q \in Workers :
        /\ pc[p] = "a_lockw" /\ Obs \in storeR
        /\ pc[Obs] = "o_cartlock" /\ pc[q] = "r_items"
        /\ cartRef[q] = cartRef[Obs]

====
